---- MODULE Spec2Model ----
(***************************************************************************)
(* Package postcode (ngrash/geozip): FetchCountry downloads a country's    *)
(* GeoNames postal code archive with a conditional GET, extracts the       *)
(* member <CC>.txt and parses it as tab separated records.                 *)
(*                                                                         *)
(* Go strings and byte slices are sequences of one-byte tokens.  A call of *)
(* FetchCountry is a sequence of steps of one goroutine: entry up to the   *)
(* point where the request is handed to HTTPClient.Do, the round trip, the *)
(* rest of download, the two halves of unzipFile (up to file.Open, then    *)
(* ReadAll and the deferred Close), parseCSV, and the return to the caller.*)
(***************************************************************************)
EXTENDS Integers, Sequences, FiniteSets, TLC

VARIABLES pc, cc, etag, req, resp, zipData, rc, csvData, ret,
          bodyOpen, rcOpen, netCalls, stages, HTTPClient, served, hist, crashed

vars == <<pc, cc, etag, req, resp, zipData, rc, csvData, ret,
          bodyOpen, rcOpen, netCalls, stages, HTTPClient, served, hist, crashed>>

(***************************************************************************)
(* Bounds of the model.                                                    *)
(***************************************************************************)
MaxCCLen == 3
MaxRows == 2
MaxMembers == 2
MaxCalls == 2

(***************************************************************************)
(* Program constants.                                                      *)
(***************************************************************************)
EntryLen == 12
wantLen == 2
StatusOK == 200
StatusNotModified == 304

(***************************************************************************)
(* Bytes.  Comma is the tab the reader is configured with.                 *)
(***************************************************************************)
Comma == "TAB"
NL == "LF"
Quote == "QUOTE"
Ctl == "CTL"

NoErr == "nil"
NilSlice == [nil |-> TRUE, elems |-> <<>>]
Slice(s) == [nil |-> FALSE, elems |-> s]

Take(s, n) == SubSeq(s, 1, n)
Drop(s, n) == SubSeq(s, n + 1, Len(s))

RECURSIVE IndexFrom(_, _, _)
IndexFrom(s, c, i) ==
  IF i > Len(s) THEN 0 ELSE IF s[i] = c THEN i ELSE IndexFrom(s, c, i + 1)

\* bytes.IndexByte / bytes.IndexRune, 0 standing for Go's -1
Index(s, c) == IndexFrom(s, c, 1)

(***************************************************************************)
(* normalizeCountryCode, downloadURL, zippedFile                           *)
(***************************************************************************)
ToUpperByte(b) == CASE b = "d" -> "D" [] b = "e" -> "E" [] OTHER -> b

ToUpper(s) == [i \in 1..Len(s) |-> ToUpperByte(s[i])]

normalizeCountryCodeLax(c) ==
  [r |-> ToUpper(c), err |-> IF Len(c) > wantLen THEN "ErrCountryCode" ELSE NoErr]

normalizeCountryCode(c) ==
  [r |-> ToUpper(c), err |-> IF Len(c) # wantLen THEN "ErrCountryCode" ELSE NoErr]

URLPrefix == "https://download.geonames.org/export/zip/"

downloadURL(c) == <<URLPrefix>> \o c \o <<".zip">>

zippedFile(c) == c \o <<".txt">>

(***************************************************************************)
(* http.NewRequest(http.MethodGet, url, nil): url.Parse rejects a URL that *)
(* holds an ASCII control byte; otherwise the request has the method, the  *)
(* URL, an empty header and no body.                                       *)
(***************************************************************************)
NoReq == [method |-> "", url |-> <<>>, header |-> {}, body |-> "nil"]

NewRequest(method, url) ==
  IF Index(url, Ctl) > 0
  THEN [req |-> NoReq, err |-> "ErrNewRequest"]
  ELSE [req |-> [method |-> method, url |-> url, header |-> {}, body |-> "nil"],
        err |-> NoErr]

HeaderAddNonEmpty(r, key, value) ==
  IF value = "" THEN r ELSE [r EXCEPT !.header = @ \cup {<<key, value>>}]

HeaderAdd(r, key, value) == [r EXCEPT !.header = @ \cup {<<key, value>>}]

(***************************************************************************)
(* The rest of download, after HTTPClient.Do has returned rt: the          *)
(* transport error or the response (status, Etag header, a body that reads *)
(* completely or fails, the body's bytes as the archive they encode).      *)
(***************************************************************************)
NoData == [valid |-> FALSE, files |-> <<>>]

downloadReturnHeaderOn304(tag, rt) ==
  IF rt.err # NoErr
  THEN [data |-> NoData, modified |-> FALSE, etag |-> "", err |-> rt.err]
  ELSE IF rt.status = StatusNotModified
  THEN [data |-> NoData, modified |-> FALSE, etag |-> rt.etagHdr, err |-> NoErr]
  ELSE IF rt.status # StatusOK
  THEN [data |-> NoData, modified |-> FALSE, etag |-> "", err |-> "ErrStatus"]
  ELSE IF rt.readErr
  THEN [data |-> NoData, modified |-> FALSE, etag |-> "", err |-> "ErrReadBody"]
  ELSE [data |-> rt.body, modified |-> TRUE, etag |-> rt.etagHdr, err |-> NoErr]

downloadReturnFlagInverted(tag, rt) ==
  IF rt.err # NoErr
  THEN [data |-> NoData, modified |-> FALSE, etag |-> "", err |-> rt.err]
  ELSE IF rt.status = StatusNotModified
  THEN [data |-> NoData, modified |-> TRUE, etag |-> tag, err |-> NoErr]
  ELSE IF rt.status # StatusOK
  THEN [data |-> NoData, modified |-> FALSE, etag |-> "", err |-> "ErrStatus"]
  ELSE IF rt.readErr
  THEN [data |-> NoData, modified |-> FALSE, etag |-> "", err |-> "ErrReadBody"]
  ELSE [data |-> rt.body, modified |-> TRUE, etag |-> rt.etagHdr, err |-> NoErr]

downloadReturnCarriesTag(tag, rt) ==
  IF rt.err # NoErr
  THEN [data |-> NoData, modified |-> FALSE, etag |-> tag, err |-> rt.err]
  ELSE IF rt.status = StatusNotModified
  THEN [data |-> NoData, modified |-> FALSE, etag |-> tag, err |-> NoErr]
  ELSE IF rt.status # StatusOK
  THEN [data |-> NoData, modified |-> FALSE, etag |-> tag, err |-> "ErrStatus"]
  ELSE IF rt.readErr
  THEN [data |-> NoData, modified |-> FALSE, etag |-> tag, err |-> "ErrReadBody"]
  ELSE [data |-> rt.body, modified |-> TRUE, etag |-> rt.etagHdr, err |-> NoErr]

downloadReturn(tag, rt) ==
  IF rt.err # NoErr
  THEN [data |-> NoData, modified |-> FALSE, etag |-> "", err |-> rt.err]
  ELSE IF rt.status = StatusNotModified
  THEN [data |-> NoData, modified |-> FALSE, etag |-> tag, err |-> NoErr]
  ELSE IF rt.status # StatusOK
  THEN [data |-> NoData, modified |-> FALSE, etag |-> "", err |-> "ErrStatus"]
  ELSE IF rt.readErr
  THEN [data |-> NoData, modified |-> FALSE, etag |-> "", err |-> "ErrReadBody"]
  ELSE [data |-> rt.body, modified |-> TRUE, etag |-> rt.etagHdr, err |-> NoErr]

\* defer Body.Close(): whether the body is still open once download returns
deferBodyClose(rt) == FALSE

(***************************************************************************)
(* unzipFile.  An archive is valid or not, and holds members in directory  *)
(* order; a member has a name, its decompressed bytes and a kind: "ok",    *)
(* "open" (file.Open fails), "checksum" (ReadAll fails, Close succeeds) or *)
(* "corrupt" (ReadAll fails and Close reports the error again).            *)
(***************************************************************************)
NoFile == [name |-> <<>>, kind |-> "ok", data |-> <<>>]

RECURSIVE findFile(_, _, _)
findFile(files, filename, i) ==
  IF i > Len(files) THEN 0
  ELSE IF files[i].name = filename THEN i
  ELSE findFile(files, filename, i + 1)

unzipFileOpen(data, filename) ==
  IF ~data.valid THEN [file |-> NoFile, err |-> "ErrZipReader"]
  ELSE LET i == findFile(data.files, filename, 1) IN
       IF i = 0 THEN [file |-> NoFile, err |-> "ErrMissing"]
       ELSE IF data.files[i].kind = "open" THEN [file |-> NoFile, err |-> "ErrOpen"]
       ELSE [file |-> data.files[i], err |-> NoErr]

errorsJoin(e1, e2) ==
  IF e1 = NoErr THEN e2 ELSE IF e2 = NoErr THEN e1 ELSE "ErrJoined"

unzipFileRead(file) ==
  LET readErr == IF file.kind \in {"checksum", "corrupt"} THEN "ErrRead" ELSE NoErr
      closeErr == IF file.kind = "corrupt" THEN "ErrClose" ELSE NoErr
      read == IF readErr = NoErr THEN file.data ELSE Take(file.data, Len(file.data) \div 2)
  IN [data |-> read, err |-> errorsJoin(readErr, closeErr)]

\* the deferred rc.Close(): whether rc is still open once unzipFile returns
deferRcCloseOnSuccessOnly(file) == file.kind # "ok"

deferRcClose(file) == FALSE

(***************************************************************************)
(* encoding/csv as parseCSV configures it: Comma = tab, FieldsPerRecord = 0*)
(* (the first record fixes the field count of the rest), LazyQuotes and    *)
(* TrimLeadingSpace off, no comment character.                             *)
(***************************************************************************)
lengthNL(line) == IF Len(line) > 0 /\ line[Len(line)] = NL THEN 1 ELSE 0

readLine(data) ==
  LET i == Index(data, NL) IN
  IF Len(data) = 0 THEN [line |-> <<>>, rest |-> <<>>, eof |-> TRUE]
  ELSE IF i = 0 THEN [line |-> data, rest |-> <<>>, eof |-> FALSE]
  ELSE [line |-> Take(data, i), rest |-> Drop(data, i), eof |-> FALSE]

RECURSIVE skipEmptyLines(_)
skipEmptyLines(data) ==
  LET l == readLine(data) IN
  IF ~l.eof /\ Len(l.line) = lengthNL(l.line) THEN skipEmptyLines(l.rest) ELSE l

RECURSIVE parseField(_, _, _)
RECURSIVE parseQuoted(_, _, _, _)
parseField(line, rest, dst) ==
  IF Len(line) = 0 \/ line[1] # Quote
  THEN LET i == Index(line, Comma)
           field == IF i > 0 THEN Take(line, i - 1)
                    ELSE Take(line, Len(line) - lengthNL(line))
       IN IF Index(field, Quote) > 0
          THEN [dst |-> dst, err |-> "ErrBareQuote", rest |-> rest]
          ELSE IF i > 0
          THEN parseField(Drop(line, i), rest, Append(dst, field))
          ELSE [dst |-> Append(dst, field), err |-> NoErr, rest |-> rest]
  ELSE parseQuoted(Drop(line, 1), rest, dst, <<>>)

parseQuoted(line, rest, dst, buf) ==
  LET i == Index(line, Quote) IN
  IF i > 0
  THEN LET after == Drop(line, i)
           buf2 == buf \o Take(line, i - 1)
       IN IF Len(after) > 0 /\ after[1] = Quote
          THEN parseQuoted(Drop(after, 1), rest, dst, Append(buf2, Quote))
          ELSE IF Len(after) > 0 /\ after[1] = Comma
          THEN parseField(Drop(after, 1), rest, Append(dst, buf2))
          ELSE IF lengthNL(after) = Len(after)
          THEN [dst |-> Append(dst, buf2), err |-> NoErr, rest |-> rest]
          ELSE [dst |-> dst, err |-> "ErrQuote", rest |-> rest]
  ELSE IF Len(line) > 0
  THEN LET l == readLine(rest) IN parseQuoted(l.line, l.rest, dst, buf \o line)
  ELSE [dst |-> dst, err |-> "ErrQuote", rest |-> rest]

RECURSIVE ReadAllFrom(_, _, _)
ReadAllFrom(data, FieldsPerRecord, records) ==
  LET l == skipEmptyLines(data) IN
  IF l.eof THEN [records |-> records, err |-> NoErr]
  ELSE LET r == parseField(l.line, l.rest, <<>>)
           err == IF r.err # NoErr THEN r.err
                  ELSE IF FieldsPerRecord > 0 /\ Len(r.dst) # FieldsPerRecord
                  THEN "ErrFieldCount"
                  ELSE NoErr
       IN IF err # NoErr THEN [records |-> <<>>, err |-> err]
          ELSE ReadAllFrom(r.rest,
                           IF FieldsPerRecord = 0 THEN Len(r.dst) ELSE FieldsPerRecord,
                           Append(records, r.dst))

ReadAll(data) == ReadAllFrom(data, 0, <<>>)

(***************************************************************************)
(* parseCSV: one Entry per record; e[ii] = col is an index into a          *)
(* [12]string, so a record of more than 12 columns panics.                 *)
(***************************************************************************)
toEntry(columns) ==
  [ii \in 1..EntryLen |-> IF ii <= Len(columns) THEN columns[ii] ELSE <<>>]

RECURSIVE ReadPartial(_, _, _)
ReadPartial(data, FieldsPerRecord, records) ==
  LET l == skipEmptyLines(data) IN
  IF l.eof THEN records
  ELSE LET r == parseField(l.line, l.rest, <<>>) IN
       IF r.err # NoErr \/ (FieldsPerRecord > 0 /\ Len(r.dst) # FieldsPerRecord)
       THEN records
       ELSE ReadPartial(r.rest, Len(r.dst), Append(records, r.dst))

parseCSVPartial(data) ==
  LET table == ReadAll(data)
      part == ReadPartial(data, 0, <<>>) IN
  IF \E i \in 1..Len(part) : Len(part[i]) > EntryLen
  THEN [entries |-> NilSlice, err |-> NoErr, panic |-> TRUE]
  ELSE [entries |-> Slice([i \in 1..Len(part) |-> toEntry(part[i])]),
        err |-> table.err, panic |-> FALSE]

parseCSV(data) ==
  LET table == ReadAll(data) IN
  IF table.err # NoErr
  THEN [entries |-> NilSlice, err |-> table.err, panic |-> FALSE]
  ELSE IF \E i \in 1..Len(table.records) : Len(table.records[i]) > EntryLen
  THEN [entries |-> NilSlice, err |-> NoErr, panic |-> TRUE]
  ELSE [entries |-> Slice([i \in 1..Len(table.records) |-> toEntry(table.records[i])]),
        err |-> NoErr, panic |-> FALSE]

(***************************************************************************)
(* Inputs.  Country codes are byte strings of up to MaxCCLen bytes; member *)
(* texts are tables of up to MaxRows rows written one row per line with    *)
(* tabs between the columns, and a few texts that exercise quoting.        *)
(***************************************************************************)
RECURSIVE SeqsUpTo(_, _)
SeqsUpTo(S, n) ==
  IF n = 0 THEN {<<>>}
  ELSE LET shorter == SeqsUpTo(S, n - 1) IN
       shorter \cup {Append(s, x) : s \in {t \in shorter : Len(t) = n - 1}, x \in S}

CCBytes == {"d", "e", "E", Ctl}
CountryCodes == SeqsUpTo(CCBytes, MaxCCLen)
Etags == {"", "old"}
RespEtags == {"", "new"}

Letter(i) == CASE i % 3 = 1 -> "a" [] i % 3 = 2 -> "b" [] OTHER -> "c"
FieldOf(i) == IF i % 4 = 0 THEN <<>> ELSE IF i = 1 THEN <<"a", "b">> ELSE <<Letter(i)>>
RowOf(k) == [i \in 1..k |-> FieldOf(i)]
ColCounts == {1, 2, EntryLen, EntryLen + 1}
Rows == {RowOf(k) : k \in ColCounts} \cup {<< <<>> >>}
Tables == SeqsUpTo(Rows, MaxRows)

RECURSIVE JoinFields(_)
JoinFields(row) ==
  IF Len(row) = 0 THEN <<>>
  ELSE IF Len(row) = 1 THEN row[1]
  ELSE row[1] \o <<Comma>> \o JoinFields(Tail(row))

RECURSIVE EncodeTable(_)
EncodeTable(t) ==
  IF Len(t) = 0 THEN <<>> ELSE JoinFields(t[1]) \o <<NL>> \o EncodeTable(Tail(t))

QuotedTexts ==
  { <<Quote, "a", Comma, "b", Quote, Comma, "c", NL>>,
    <<Quote, "a", Quote, Quote, "b", Quote, NL>>,
    <<Quote, "a", NL, "b", Quote, NL>>,
    <<"a", Quote, "b", NL>>,
    <<Quote, "a", NL>>,
    <<"a", Comma, "b">> }

Texts == {EncodeTable(t) : t \in Tables} \cup QuotedTexts

TargetName == <<"D", "E", ".txt">>
MemberNames == {TargetName, <<"readme.txt">>}
Kinds == {"ok", "open", "checksum", "corrupt"}
Members == [name : MemberNames, kind : Kinds, data : Texts]
LeadingMembers == [name : MemberNames, kind : {"ok"}, data : {EncodeTable(<<RowOf(1)>>)}]

Archives ==
  {NoData} \cup
  {[valid |-> TRUE, files |-> pre \o post] :
     pre \in SeqsUpTo(LeadingMembers, MaxMembers - 1),
     post \in {<<>>} \cup {<<m>> : m \in Members}}

\* a status that is neither 200 nor 304
UnexpectedStatuses == {404}

NoResp == [err |-> NoErr, status |-> 0, etagHdr |-> "", readErr |-> FALSE, body |-> NoData]

Response(st, hdr, rerr, b) ==
  [err |-> NoErr, status |-> st, etagHdr |-> hdr, readErr |-> rerr, body |-> b]

RoundTripsOver(archives) ==
  {[NoResp EXCEPT !.err = "ErrTransport"]}
  \cup {Response(StatusNotModified, h, FALSE, NoData) : h \in RespEtags}
  \cup {Response(st, "", FALSE, NoData) : st \in UnexpectedStatuses}
  \cup {Response(StatusOK, h, TRUE, NoData) : h \in RespEtags}
  \cup {Response(StatusOK, h, FALSE, b) : h \in RespEtags, b \in archives}

RoundTrips == RoundTripsOver(Archives)

Threads == {"g1", "g2"}
Transports == {"DefaultTransport", "RoundTripperFunc"}

(***************************************************************************)
(* State.  ret[p] holds FetchCountry's four named results as they stand.   *)
(***************************************************************************)
NoRet == [entries |-> NilSlice, modified |-> FALSE, newEtag |-> "", err |-> NoErr]

Init ==
  /\ pc = [p \in Threads |-> "idle"]
  /\ cc = [p \in Threads |-> <<>>]
  /\ etag = [p \in Threads |-> ""]
  /\ req = [p \in Threads |-> NoReq]
  /\ resp = [p \in Threads |-> NoResp]
  /\ zipData = [p \in Threads |-> NoData]
  /\ rc = [p \in Threads |-> NoFile]
  /\ csvData = [p \in Threads |-> <<>>]
  /\ ret = [p \in Threads |-> NoRet]
  /\ bodyOpen = [p \in Threads |-> FALSE]
  /\ rcOpen = [p \in Threads |-> FALSE]
  /\ netCalls = [p \in Threads |-> 0]
  /\ stages = [p \in Threads |-> {}]
  /\ HTTPClient = "DefaultTransport"
  /\ served = [k \in {} |-> NoResp]
  /\ hist = <<>>
  /\ crashed = FALSE

\* FetchCountry up to HTTPClient.Do(req): normalizeCountryCode, downloadURL,
\* and in download http.NewRequest and req.Header.Add.
FetchCountry(p, ccs, etags) ==
  /\ ~crashed
  /\ pc[p] = "idle"
  /\ \E c \in ccs, tag \in etags :
       LET n == normalizeCountryCode(c)
           nr == NewRequest("GET", downloadURL(n.r))
       IN /\ cc' = [cc EXCEPT ![p] = c]
          /\ etag' = [etag EXCEPT ![p] = tag]
          /\ IF n.err # NoErr
             THEN /\ ret' = [ret EXCEPT ![p] = [NoRet EXCEPT !.err = n.err]]
                  /\ pc' = [pc EXCEPT ![p] = "done"]
                  /\ UNCHANGED <<req, netCalls>>
             ELSE IF nr.err # NoErr
             THEN /\ ret' = [ret EXCEPT ![p] = [NoRet EXCEPT !.err = nr.err]]
                  /\ pc' = [pc EXCEPT ![p] = "done"]
                  /\ UNCHANGED <<req, netCalls>>
             ELSE /\ req' = [req EXCEPT ![p] = HeaderAdd(nr.req, "If-None-Match", tag)]
                  /\ netCalls' = [netCalls EXCEPT ![p] = @ + 1]
                  /\ pc' = [pc EXCEPT ![p] = "sent"]
                  /\ UNCHANGED ret
  /\ UNCHANGED <<resp, zipData, rc, csvData, bodyOpen, rcOpen, stages,
                 HTTPClient, served, hist, crashed>>

\* HTTPClient.Do returns: a transport error, or a response whose body is open.
HTTPClientDo(p, rts) ==
  /\ ~crashed
  /\ pc[p] = "sent"
  /\ \E rt \in rts :
       /\ resp' = [resp EXCEPT ![p] = rt]
       /\ bodyOpen' = [bodyOpen EXCEPT ![p] = (rt.err = NoErr)]
  /\ pc' = [pc EXCEPT ![p] = "received"]
  /\ UNCHANGED <<cc, etag, req, zipData, rc, csvData, ret, rcOpen, netCalls,
                 stages, HTTPClient, served, hist, crashed>>

\* The same against a remote resource that does not change: a request the
\* server has answered before gets the same answer; the transport may fail.
HTTPClientDoUnchanged(p, rts) ==
  /\ ~crashed
  /\ pc[p] = "sent"
  /\ \E rt \in rts :
       /\ \/ rt.err # NoErr
          \/ req[p] \in DOMAIN served /\ rt = served[req[p]]
          \/ req[p] \notin DOMAIN served /\ rt.err = NoErr
       /\ resp' = [resp EXCEPT ![p] = rt]
       /\ bodyOpen' = [bodyOpen EXCEPT ![p] = (rt.err = NoErr)]
       /\ served' = IF rt.err # NoErr THEN served
                    ELSE [k \in DOMAIN served \cup {req[p]} |->
                            IF k = req[p] THEN rt ELSE served[k]]
  /\ pc' = [pc EXCEPT ![p] = "received"]
  /\ UNCHANGED <<cc, etag, req, zipData, rc, csvData, ret, rcOpen, netCalls,
                 stages, HTTPClient, hist, crashed>>

\* The rest of download and FetchCountry's test of its results; tag is
\* download's parameter etag.
DownloadWith(p, tag) ==
  /\ ~crashed
  /\ pc[p] = "received"
  /\ LET r == downloadReturn(tag, resp[p]) IN
       /\ bodyOpen' = [bodyOpen EXCEPT ![p] =
                         IF resp[p].err = NoErr THEN deferBodyClose(resp[p]) ELSE FALSE]
       /\ ret' = [ret EXCEPT ![p] = [entries |-> NilSlice, modified |-> r.modified,
                                     newEtag |-> r.etag, err |-> r.err]]
       /\ IF ~r.modified \/ r.err # NoErr
          THEN /\ pc' = [pc EXCEPT ![p] = "done"]
               /\ UNCHANGED zipData
          ELSE /\ pc' = [pc EXCEPT ![p] = "unzip"]
               /\ zipData' = [zipData EXCEPT ![p] = r.data]
  /\ UNCHANGED <<cc, etag, req, resp, rc, csvData, rcOpen, netCalls, stages,
                 HTTPClient, served, hist, crashed>>

\* A download that keeps the token in one package-level variable, written by
\* whichever call started last.
DownloadSharedTag(p) ==
  LET others == {q \in Threads \ {p} : pc[q] # "idle"} IN
  DownloadWith(p, IF others = {} THEN etag[p] ELSE etag[CHOOSE q \in others : TRUE])

Download(p) == DownloadWith(p, etag[p])

\* zippedFile and unzipFile up to file.Open.
UnzipFile(p) ==
  /\ ~crashed
  /\ pc[p] = "unzip"
  /\ stages' = [stages EXCEPT ![p] = @ \cup {"unzipFile"}]
  /\ LET o == unzipFileOpen(zipData[p], zippedFile(normalizeCountryCode(cc[p]).r)) IN
       IF o.err # NoErr
       THEN /\ ret' = [ret EXCEPT ![p].err = o.err]
            /\ pc' = [pc EXCEPT ![p] = "done"]
            /\ UNCHANGED <<rc, rcOpen>>
       ELSE /\ rc' = [rc EXCEPT ![p] = o.file]
            /\ rcOpen' = [rcOpen EXCEPT ![p] = TRUE]
            /\ pc' = [pc EXCEPT ![p] = "opened"]
            /\ UNCHANGED ret
  /\ UNCHANGED <<cc, etag, req, resp, zipData, csvData, bodyOpen, netCalls,
                 HTTPClient, served, hist, crashed>>

\* io.ReadAll(rc), the deferred Close, and FetchCountry's test of err.
UnzipFileRead(p) ==
  /\ ~crashed
  /\ pc[p] = "opened"
  /\ rcOpen' = [rcOpen EXCEPT ![p] = deferRcClose(rc[p])]
  /\ LET r == unzipFileRead(rc[p]) IN
       IF r.err # NoErr
       THEN /\ ret' = [ret EXCEPT ![p].err = r.err]
            /\ pc' = [pc EXCEPT ![p] = "done"]
            /\ UNCHANGED csvData
       ELSE /\ csvData' = [csvData EXCEPT ![p] = r.data]
            /\ pc' = [pc EXCEPT ![p] = "parse"]
            /\ UNCHANGED ret
  /\ UNCHANGED <<cc, etag, req, resp, zipData, rc, bodyOpen, netCalls, stages,
                 HTTPClient, served, hist, crashed>>

\* entries, err = parseCSV(csvData); an unrecovered panic ends the process.
ParseCSV(p) ==
  /\ ~crashed
  /\ pc[p] = "parse"
  /\ stages' = [stages EXCEPT ![p] = @ \cup {"parseCSV"}]
  /\ LET r == parseCSV(csvData[p]) IN
       IF r.panic
       THEN /\ pc' = [pc EXCEPT ![p] = "panicked"]
            /\ crashed' = TRUE
            /\ UNCHANGED ret
       ELSE /\ ret' = [ret EXCEPT ![p].entries = r.entries, ![p].err = r.err]
            /\ pc' = [pc EXCEPT ![p] = "done"]
            /\ UNCHANGED crashed
  /\ UNCHANGED <<cc, etag, req, resp, zipData, rc, csvData, bodyOpen, rcOpen,
                 netCalls, HTTPClient, served, hist>>

\* The caller has the results; the call's locals are gone.
Forget(p) ==
  /\ pc' = [pc EXCEPT ![p] = "idle"]
  /\ cc' = [cc EXCEPT ![p] = <<>>]
  /\ etag' = [etag EXCEPT ![p] = ""]
  /\ req' = [req EXCEPT ![p] = NoReq]
  /\ resp' = [resp EXCEPT ![p] = NoResp]
  /\ zipData' = [zipData EXCEPT ![p] = NoData]
  /\ rc' = [rc EXCEPT ![p] = NoFile]
  /\ csvData' = [csvData EXCEPT ![p] = <<>>]
  /\ ret' = [ret EXCEPT ![p] = NoRet]
  /\ netCalls' = [netCalls EXCEPT ![p] = 0]
  /\ stages' = [stages EXCEPT ![p] = {}]
  /\ UNCHANGED <<bodyOpen, rcOpen, HTTPClient, served, crashed>>

Return(p) ==
  /\ ~crashed
  /\ pc[p] = "done"
  /\ Forget(p)
  /\ UNCHANGED hist

\* The caller keeps what it called with and what it got.
ReturnKeep(p) ==
  /\ ~crashed
  /\ pc[p] = "done"
  /\ Forget(p)
  /\ hist' = Append(hist, [cc |-> cc[p], etag |-> etag[p], netCalls |-> netCalls[p],
                           resp |-> resp[p], ret |-> ret[p]])

\* The host replaces the client's transport while no call is running.
Configure ==
  /\ ~crashed
  /\ \A p \in Threads : pc[p] = "idle"
  /\ \E t \in Transports \ {HTTPClient} : HTTPClient' = t
  /\ UNCHANGED <<pc, cc, etag, req, resp, zipData, rc, csvData, ret, bodyOpen,
                 rcOpen, netCalls, stages, served, hist, crashed>>

(***************************************************************************)
(* Spec: one goroutine calling FetchCountry again and again.               *)
(***************************************************************************)
Main == "g1"

Next ==
  \/ FetchCountry(Main, CountryCodes, Etags)
  \/ HTTPClientDo(Main, RoundTrips)
  \/ Download(Main)
  \/ UnzipFile(Main)
  \/ UnzipFileRead(Main)
  \/ ParseCSV(Main)
  \/ Return(Main)

Spec == Init /\ [][Next]_vars

(***************************************************************************)
(* SpecUnchanged: MaxCalls successive calls against a remote resource that *)
(* does not change; the caller keeps the calls and their results in hist.  *)
(***************************************************************************)
RepeatCodes == {<<"d", "e">>, <<"E", "E">>, <<"e">>}
PlainArchive == [valid |-> TRUE,
                 files |-> <<[name |-> TargetName, kind |-> "ok",
                              data |-> EncodeTable(<<RowOf(EntryLen)>>)]>>]
PanicArchive == [valid |-> TRUE,
                 files |-> <<[name |-> TargetName, kind |-> "ok",
                              data |-> EncodeTable(<<RowOf(EntryLen + 1)>>)]>>]
RepeatRoundTrips == RoundTripsOver({NoData, PlainArchive})

FetchCountryAgain(p) ==
  /\ Len(hist) < MaxCalls
  /\ FetchCountry(p, RepeatCodes, Etags)

NextUnchanged ==
  \/ FetchCountryAgain(Main)
  \/ HTTPClientDoUnchanged(Main, RepeatRoundTrips)
  \/ Download(Main)
  \/ UnzipFile(Main)
  \/ UnzipFileRead(Main)
  \/ ParseCSV(Main)
  \/ ReturnKeep(Main)

SpecUnchanged == Init /\ [][NextUnchanged]_vars

(***************************************************************************)
(* SpecConcurrent: the goroutines of Threads call FetchCountry at the same *)
(* time through the one HTTPClient.                                        *)
(***************************************************************************)
ConcurrentCodes == {<<"d", "e">>, <<"e">>}
ConcurrentRoundTrips == RoundTripsOver({PlainArchive, PanicArchive})

NextConcurrent ==
  \/ \E p \in Threads :
       \/ FetchCountry(p, ConcurrentCodes, Etags)
       \/ HTTPClientDo(p, ConcurrentRoundTrips)
       \/ Download(p)
       \/ UnzipFile(p)
       \/ UnzipFileRead(p)
       \/ ParseCSV(p)
       \/ Return(p)
  \/ Configure

SpecConcurrent == Init /\ [][NextConcurrent]_vars

(***************************************************************************)
(* Properties.                                                             *)
(***************************************************************************)
Done(p) == pc[p] = "done"

\* HTTPClient.Do has returned a response (not a transport error) to p's call
Answered(p) == netCalls[p] = 1 /\ pc[p] \notin {"idle", "sent"} /\ resp[p].err = NoErr

\* the tables of Tables that have no blank line
LineTables == {t \in Tables : \A i \in 1..Len(t) : t[i] # << <<>> >>}

\* those whose lines have at most the 12 columns of the dataset
DatasetTables == {t \in LineTables : \A i \in 1..Len(t) : Len(t[i]) <= EntryLen}

EntriesOf(t) == Slice([i \in 1..Len(t) |-> toEntry(t[i])])

\* C1: when the server answers 304 Not Modified, FetchCountry returns nil
\* entries, modified = false, newEtag = the token that was sent and a nil
\* error, and neither unzipFile nor parseCSV is attempted.
C1_NotModified ==
  (Answered(Main) /\ resp[Main].status = StatusNotModified)
    => /\ stages[Main] = {}
       /\ pc[Main] \in {"received", "done"}
       /\ Done(Main) => ret[Main] = [entries |-> NilSlice, modified |-> FALSE,
                                      newEtag |-> etag[Main], err |-> NoErr]

C1_Witness ==
  /\ Done(Main) /\ Answered(Main) /\ resp[Main].status = StatusNotModified
  /\ etag[Main] = "old" /\ resp[Main].etagHdr = "new"

\* C2: when the server answers 200 OK with a valid archive whose member
\* <CC>.txt is made of N tab-delimited lines, FetchCountry returns exactly N
\* entries, entry i holding the fields of line i, with modified = true,
\* newEtag = the response's ETag header and a nil error.
C2_Modified ==
  \A t \in DatasetTables :
    LET name == zippedFile(ToUpper(cc[Main]))
        i == findFile(resp[Main].body.files, name, 1)
    IN (/\ pc[Main] \in {"done", "panicked"}
        /\ Answered(Main) /\ resp[Main].status = StatusOK /\ ~resp[Main].readErr
        /\ resp[Main].body.valid
        /\ i > 0
        /\ resp[Main].body.files[i].kind = "ok"
        /\ resp[Main].body.files[i].data = EncodeTable(t))
       => /\ Done(Main)
          /\ ret[Main] = [entries |-> EntriesOf(t), modified |-> TRUE,
                          newEtag |-> resp[Main].etagHdr, err |-> NoErr]

\* C3: for a country code whose length in bytes is not 2, FetchCountry
\* returns a non-nil error and never invokes the HTTP client.
C3_InvalidCode ==
  (pc[Main] # "idle" /\ Len(cc[Main]) # wantLen)
    => /\ Done(Main)
       /\ ret[Main].err # NoErr
       /\ netCalls[Main] = 0
       /\ req[Main] = NoReq

C3_Witness == Done(Main) /\ Len(cc[Main]) = 1 /\ ret[Main].err = "ErrCountryCode"

\* C4: whenever FetchCountry returns a non-nil error, whichever stage
\* failed, the returned entries are nil: no partial entries with an error.
C4_NoPartialEntries ==
  (Done(Main) /\ ret[Main].err # NoErr) => ret[Main].entries = NilSlice

C4_Witness ==
  /\ Done(Main) /\ ret[Main].err = "ErrFieldCount"
  /\ csvData[Main] = EncodeTable(<<RowOf(1), RowOf(EntryLen)>>)

\* C5: the record parser maps every row to exactly one Entry by positional
\* copy with no arity enforcement: short rows are padded with empty strings,
\* the columns beyond index 11 of long rows are ignored without failing, and
\* rows of different column counts in one input are all accepted.
C5_NoArityEnforcement ==
  \A t \in LineTables :
    ("parseCSV" \in stages[Main] /\ csvData[Main] = EncodeTable(t))
      => /\ Done(Main)
         /\ ret[Main].err = NoErr
         /\ ret[Main].entries = EntriesOf(t)

\* C6: the request handed to the HTTP client is a GET with no payload to
\* https://download.geonames.org/export/zip/<UPPERCASE(cc)>.zip whose only
\* header is If-None-Match with the prior token as its value (the empty
\* string when there is none).
C6_Request ==
  netCalls[Main] = 1
    => req[Main] = [method |-> "GET",
                    url |-> <<URLPrefix>> \o ToUpper(cc[Main]) \o <<".zip">>,
                    header |-> {<<"If-None-Match", etag[Main]>>},
                    body |-> "nil"]

C6_Witness ==
  /\ pc[Main] = "sent" /\ netCalls[Main] = 1
  /\ cc[Main] = <<"d", "e">> /\ etag[Main] = ""

\* C7 as stated: in every outcome of FetchCountry, error paths included,
\* the returned token is the response's ETag header or the prior token.
C7_TokenCurrent ==
  Done(Main)
    => \/ ret[Main].newEtag = etag[Main]
       \/ Answered(Main) /\ ret[Main].newEtag = resp[Main].etagHdr

DownloadErrors ==
  {"ErrCountryCode", "ErrNewRequest", "ErrTransport", "ErrStatus", "ErrReadBody"}

\* C7 as amended: without an error the returned token is the response's ETag
\* header (modified) or the prior token (not modified); with an error from
\* normalization, request construction, transport, status or body read it is
\* the empty string; with an error from extraction or parsing it is the
\* response's ETag header.
C7_TokenAmended ==
  Done(Main)
    => /\ (ret[Main].err = NoErr /\ ret[Main].modified)
            => Answered(Main) /\ ret[Main].newEtag = resp[Main].etagHdr
       /\ (ret[Main].err = NoErr /\ ~ret[Main].modified)
            => ret[Main].newEtag = etag[Main]
       /\ ret[Main].err \in DownloadErrors => ret[Main].newEtag = ""
       /\ ret[Main].err \notin DownloadErrors \cup {NoErr}
            => Answered(Main) /\ ret[Main].newEtag = resp[Main].etagHdr

C7_Witness ==
  /\ Done(Main) /\ ret[Main].err = "ErrStatus"
  /\ etag[Main] = "old" /\ ret[Main].newEtag = ""

SameCall(i) == hist[i].cc = hist[i + 1].cc /\ hist[i].etag = hist[i + 1].etag

AnsweredWith(h, st) == h.netCalls = 1 /\ h.resp.err = NoErr /\ h.resp.status = st

\* C8 as stated: against a remote resource that does not change, two
\* successive calls with the same country code and the same prior token both
\* return modified = false (stated for the calls that return no error).
C8_BothUnmodified ==
  \A i \in 1..(Len(hist) - 1) :
    (SameCall(i) /\ hist[i].ret.err = NoErr /\ hist[i + 1].ret.err = NoErr)
      => ~hist[i].ret.modified /\ ~hist[i + 1].ret.modified

\* C8 as amended: two such calls both return modified = false when the
\* server answers the first of them 304 Not Modified; a call the server
\* answers 200 OK with a readable body returns modified = true.
C8_UnmodifiedWhen304 ==
  /\ \A i \in 1..(Len(hist) - 1) :
       (SameCall(i) /\ AnsweredWith(hist[i], StatusNotModified))
         => ~hist[i].ret.modified /\ ~hist[i + 1].ret.modified
  /\ \A i \in 1..Len(hist) :
       (AnsweredWith(hist[i], StatusOK) /\ ~hist[i].resp.readErr)
         => hist[i].ret.modified

C8_Witness ==
  /\ Len(hist) = 2 /\ SameCall(1)
  /\ AnsweredWith(hist[1], StatusNotModified)
  /\ AnsweredWith(hist[2], StatusNotModified)
  /\ ~hist[2].ret.modified

\* what a call returns when it runs alone, given the client's answer rt
FetchCountryAlone(c, tag, rt) ==
  LET n == normalizeCountryCode(c)
      nr == NewRequest("GET", downloadURL(n.r))
      d == downloadReturn(tag, rt)
      o == unzipFileOpen(d.data, zippedFile(n.r))
      r == unzipFileRead(o.file)
      e == parseCSV(r.data)
      got == [entries |-> NilSlice, modified |-> d.modified, newEtag |-> d.etag,
              err |-> d.err]
  IN IF n.err # NoErr THEN [NoRet EXCEPT !.err = n.err]
     ELSE IF nr.err # NoErr THEN [NoRet EXCEPT !.err = nr.err]
     ELSE IF ~d.modified \/ d.err # NoErr THEN got
     ELSE IF o.err # NoErr THEN [got EXCEPT !.err = o.err]
     ELSE IF r.err # NoErr THEN [got EXCEPT !.err = r.err]
     ELSE [got EXCEPT !.entries = e.entries, !.err = e.err]

\* C9: under every interleaving of two concurrent calls no step of a call
\* writes the shared HTTPClient, and the results of each call that returns
\* are those it returns when it runs alone with its own arguments and the
\* response to its own request.
C9_Concurrent ==
  /\ [][HTTPClient' # HTTPClient
          => \A p \in Threads : pc[p] = "idle" /\ pc'[p] = "idle"]_vars
  /\ [](\A p \in Threads :
          Done(p) => ret[p] = FetchCountryAlone(cc[p], etag[p], resp[p]))

C9_Witness ==
  /\ Done("g1") /\ ret["g1"].err = NoErr /\ ret["g1"].modified
  /\ pc["g2"] = "received" /\ etag["g1"] # etag["g2"]
  /\ resp["g2"].status = StatusNotModified

\* C10: the response body is open only while download runs and the reader on
\* the archive member only while unzipFile runs, so on every exit path (304,
\* unexpected status, failed body read, failed member read, success) no
\* handle is open when FetchCountry returns.
C10_HandlesClosed ==
  /\ bodyOpen[Main] => pc[Main] = "received"
  /\ rcOpen[Main] => pc[Main] = "opened"

C10_Witness ==
  /\ Done(Main) /\ ret[Main].err = "ErrJoined"
  /\ ~bodyOpen[Main] /\ ~rcOpen[Main]

====
